---- MODULE Spec2Model ----
(***************************************************************************)
(* Model of the Chinese text checker (src/app.py and src/checker/*.py).    *)
(*                                                                         *)
(* Conventions                                                             *)
(*  - a character is its Unicode codepoint (a natural number); a text is a *)
(*    sequence of codepoints.  Python offsets are 0-based, so text[i] of   *)
(*    the source is At(text, i) here and text[b:e] is Slice(text, b, e).   *)
(*  - an issue is a record with the fields of the source's issue dict.     *)
(*    The display-only evidence string is left out; suggestions are kept   *)
(*    as short ASCII paraphrases of the source's literals (or as codepoint *)
(*    sequences where the source computes them); confidence is in          *)
(*    hundredths (0.6 is 60).                                              *)
(*  - external collaborators (the segmenter/tagger, the spelling model)    *)
(*    answer nondeterministically.                                         *)
(***************************************************************************)
EXTENDS Integers, Sequences, FiniteSets, TLC

VARIABLES
    text,     \* the (stripped) text the handler or engine works on
    modes,    \* the effective engine flags of the request (app.py:42)
    pc,       \* position in the handler / engine being run
    issues,   \* the list being built (api_check's `issues`, or an engine's)
    ext,      \* what each externally driven engine call built (pos, csc)
    status,   \* how each engine's try-block of api_check ended
    resp,     \* the response built at the end of api_check
    idx,      \* bracket scan: index of the next character (rules.py:92)
    stack,    \* bracket scan: the stack of (ch, idx) (rules.py:91)
    disk,     \* the configuration files and the installed packages
    cache,    \* the module globals _REGEX_RULES, _POS_RULES, _TERMS_CACHE, _CSC_MODEL
    thr,      \* the request threads using the caches: position and locals
    built,    \* history: the caches whose first load has completed
    tagged,   \* POS engine: what pseg.cut yielded (pos_patterns.py:138)
    toks      \* POS engine: `tokens`, with the reconstructed offsets

vars == <<text, modes, pc, issues, ext, status, resp, idx, stack,
          disk, cache, thr, built, tagged, toks>>

\* the variables of the configuration caches and of the POS engine run on
\* its own, which the request handler and the single-engine runs leave alone
conf_vars == <<disk, cache, thr, built>>
pos_vars == <<tagged, toks>>

-----------------------------------------------------------------------------
(* Bounds of the model *)

\* longest raw request text explored by the aggregator specification
MaxLen == 3
\* longest text explored by the bracket-scan specification
MaxScanLen == 5
\* longest text explored by the term-engine specification
MaxTermLen == 5

-----------------------------------------------------------------------------
(* Characters used by the inputs of the model (codepoints) *)

LParen == 40
RParen == 41
LBrack == 91
RBrack == 93
Space == 32
IdeoSpace == 12288
FwLParen == 65288
FwRParen == 65289
FwComma == 65292
Hao == 22909
De == 30340
Di == 22320
Dei == 24471
Ni == 20320
You == 21451
HaoMark == 21495

\* [U+4E00-U+9FFF]
IsCJK(ch) == ch >= 19968 /\ ch <= 40959

\* \s and U+3000 of the source's patterns, restricted to the characters the
\* model's inputs contain (both are whitespace for str.strip too)
SpaceChars == {Space, IdeoSpace}

IsSpace(ch) == ch \in SpaceChars

\* the punctuation class of rules.py:59
CnPunct == {65292, 12290, 65307, 65306, 65281, 65311, 12289}

-----------------------------------------------------------------------------
(* Python string helpers *)

Min(a, b) == IF a < b THEN a ELSE b
Max(a, b) == IF a > b THEN a ELSE b

\* text[i]
At(t, i) == t[i + 1]

\* text[b:e] for b >= 0 (Python clamps e to len(text))
Slice(t, b, e) == SubSeq(t, b + 1, Min(e, Len(t)))

\* str.strip(): drop leading and trailing whitespace
RECURSIVE LStrip(_)
LStrip(t) == IF t # <<>> /\ IsSpace(Head(t)) THEN LStrip(Tail(t)) ELSE t

RECURSIVE RStrip(_)
RStrip(t) ==
    IF t # <<>> /\ IsSpace(t[Len(t)]) THEN RStrip(SubSeq(t, 1, Len(t) - 1)) ELSE t

Strip(t) == RStrip(LStrip(t))

\* text.find(w, start): the first offset >= start where w occurs, or -1
Occurs(t, w, i) == i + Len(w) <= Len(t) /\ SubSeq(t, i + 1, i + Len(w)) = w

Find(t, w, start) ==
    LET hits == {i \in start..Len(t) : Occurs(t, w, i)}
    IN  IF hits = {} THEN -1 ELSE CHOOSE i \in hits : \A j \in hits : i <= j

\* the end of the maximal run of characters of S that starts at offset i
RECURSIVE RunEnd(_, _, _)
RunEnd(t, i, S) ==
    IF i < Len(t) /\ At(t, i) \in S THEN RunEnd(t, i + 1, S) ELSE i

\* all sequences over S of length at most n
SeqsUpTo(S, n) == UNION {[1..k -> S] : k \in 0..n}

-----------------------------------------------------------------------------
(* Structural rule engine: src/checker/rules.py *)

RuleIssue(rule_id, begin, end, t, hit, suggestions, confidence) ==
    [type |-> "rule", rule_id |-> rule_id, begin |-> begin, end |-> end,
     hit_text |-> hit, suggestions |-> suggestions, confidence |-> confidence,
     context_left |-> Slice(t, Max(0, begin - 8), begin),
     context_right |-> Slice(t, end, end + 8)]

\* 1. re.finditer(r'[U+3000\s]{2,}'): maximal whitespace runs of length >= 2
RECURSIVE MultiSpace(_, _)
MultiSpace(t, i) ==
    IF i >= Len(t) THEN <<>>
    ELSE IF IsSpace(At(t, i))
         THEN LET j == RunEnd(t, i, SpaceChars)
              IN  (IF j - i >= 2
                   THEN <<RuleIssue("multi_space", i, j, t, Slice(t, i, j),
                                    <<"delete_extra_space">>, 85)>>
                   ELSE <<>>) \o MultiSpace(t, j)
         ELSE MultiSpace(t, i + 1)

\* 2. re.finditer(r'\s+(?=[punct])'): a whitespace run directly before
\*    Chinese punctuation
RECURSIVE SpaceBeforePunct(_, _)
SpaceBeforePunct(t, i) ==
    IF i >= Len(t) THEN <<>>
    ELSE IF IsSpace(At(t, i))
         THEN LET j == RunEnd(t, i, SpaceChars)
              IN  (IF j < Len(t) /\ At(t, j) \in CnPunct
                   THEN <<RuleIssue("space_before_cn_punct", i, j, t, Slice(t, i, j),
                                    <<"delete_extra_space">>, 80)>>
                   ELSE <<>>) \o SpaceBeforePunct(t, j)
         ELSE SpaceBeforePunct(t, i + 1)

\* 3. re.finditer(r'([U+4E00-U+9FFF])\1{1,}'): a CJK character repeated
RECURSIVE RepeatChar(_, _)
RepeatChar(t, i) ==
    IF i >= Len(t) THEN <<>>
    ELSE IF IsCJK(At(t, i))
         THEN LET j == RunEnd(t, i, {At(t, i)})
              IN  (IF j - i >= 2
                   THEN <<RuleIssue("repeat_char", i, j, t, Slice(t, i, j),
                                    <<"delete_or_merge_repeat">>, 70)>>
                   ELSE <<>>) \o RepeatChar(t, j)
         ELSE RepeatChar(t, i + 1)

\* 4. bracket / quote balance.  pairs: opener -> closer (rules.py:90)
pairs ==
    (40 :> 41) @@ (65288 :> 65289) @@ (91 :> 93) @@ (12304 :> 12305) @@
    (12298 :> 12299) @@ (12300 :> 12301) @@ (12302 :> 12303) @@
    (8220 :> 8221) @@ (8216 :> 8217)

Openers == DOMAIN pairs
Closers == {pairs[o] : o \in Openers}

UnpairedIssue(t, i) ==
    RuleIssue("unpaired_bracket", i, i + 1, t, <<At(t, i)>>,
              <<"match_left_symbol">>, 60)

\* variant of TopMatches: the closer is compared with the bottom entry
TopMatchesBottom(st, ch) == st # <<>> /\ pairs[st[1].ch] = ch

\* the closer at offset i matches the top of the stack (rules.py:96)
TopMatches(st, ch) == st # <<>> /\ pairs[st[Len(st)].ch] = ch

\* variant of BracketStep: a mismatched closer discards the top entry
BracketStepPop(t, st, i) ==
    LET ch == At(t, i)
    IN  IF ch \in Openers
        THEN [stack |-> Append(st, [ch |-> ch, idx |-> i]), out |-> <<>>]
        ELSE IF ch \in Closers
             THEN IF TopMatches(st, ch)
                  THEN [stack |-> SubSeq(st, 1, Len(st) - 1), out |-> <<>>]
                  ELSE [stack |-> SubSeq(st, 1, Len(st) - 1),
                        out |-> <<UnpairedIssue(t, i)>>]
             ELSE [stack |-> st, out |-> <<>>]

\* one iteration of the loop of rules.py:92-111 on character i:
\* the new stack and the issues it appends
BracketStep(t, st, i) ==
    LET ch == At(t, i)
    IN  IF ch \in Openers
        THEN [stack |-> Append(st, [ch |-> ch, idx |-> i]), out |-> <<>>]
        ELSE IF ch \in Closers
             THEN IF TopMatches(st, ch)
                  THEN [stack |-> SubSeq(st, 1, Len(st) - 1), out |-> <<>>]
                  ELSE [stack |-> st, out |-> <<UnpairedIssue(t, i)>>]
             ELSE [stack |-> st, out |-> <<>>]

\* variant of UnclosedIssues: the stack is emptied from the top
UnclosedIssuesLifo(t, st) ==
    [k \in 1..Len(st) |->
        RuleIssue("unclosed_bracket", st[Len(st) + 1 - k].idx,
                  st[Len(st) + 1 - k].idx + 1, t, <<st[Len(st) + 1 - k].ch>>,
                  <<"add_right_symbol">>, 60)]

\* the loop of rules.py:113-125 over what is left on the stack
UnclosedIssues(t, st) ==
    [k \in 1..Len(st) |->
        RuleIssue("unclosed_bracket", st[k].idx, st[k].idx + 1, t, <<st[k].ch>>,
                  <<"add_right_symbol">>, 60)]

\* the whole scan from offset i with stack st, then the unclosed openers
RECURSIVE BracketScan(_, _, _)
BracketScan(t, st, i) ==
    IF i >= Len(t) THEN UnclosedIssues(t, st)
    ELSE LET r == BracketStep(t, st, i)
         IN  r.out \o BracketScan(t, r.stack, i + 1)

\* 5. re.finditer(r'(?:[U+4E00-U+9FFF]{1,2})P([U+4E00-U+9FFF])') for a
\*    particle P: the offset of group 1 when the pattern matches at s, or -1.
\*    The greedy {1,2} tries two leading CJK characters first.
DeMatchAt(t, p, s) ==
    IF s + 3 < Len(t) /\ IsCJK(At(t, s)) /\ IsCJK(At(t, s + 1))
       /\ At(t, s + 2) = p /\ IsCJK(At(t, s + 3))
    THEN s + 3
    ELSE IF s + 2 < Len(t) /\ IsCJK(At(t, s)) /\ At(t, s + 1) = p
            /\ IsCJK(At(t, s + 2))
         THEN s + 2
         ELSE -1

RECURSIVE DeScan(_, _, _, _, _, _)
DeScan(t, p, rule_id, sugg, conf, s) ==
    IF s >= Len(t) THEN <<>>
    ELSE LET g == DeMatchAt(t, p, s)
         IN  IF g >= 0
             THEN <<RuleIssue(rule_id, g - 1, g, t, <<p>>, <<sugg>>, conf)>>
                  \o DeScan(t, p, rule_id, sugg, conf, g + 1)
             ELSE DeScan(t, p, rule_id, sugg, conf, s + 1)

run_rule_checks(t) ==
    IF t = <<>> THEN <<>>
    ELSE MultiSpace(t, 0) \o SpaceBeforePunct(t, 0) \o RepeatChar(t, 0)
         \o BracketScan(t, <<>>, 0)
         \o DeScan(t, De, "de_maybe_di", "change_de_to_di", 55, 0)
         \o DeScan(t, Di, "di_maybe_de", "change_di_to_de", 55, 0)
         \o DeScan(t, Dei, "dei_maybe_de", "adjust_dei", 50, 0)

-----------------------------------------------------------------------------
(* Lexicon engine: src/checker/lexicon.py *)

\* _DEFAULT_CONFUSION (lexicon.py:23-48)
DEFAULT_CONFUSION ==
    (22312 :> <<20877>>) @@ (20877 :> <<22312>>) @@
    (24418 :> <<22411>>) @@ (22411 :> <<24418>>) @@
    (21495 :> <<22909>>) @@ (22909 :> <<21495>>) @@
    (25311 :> <<20320, 27877>>) @@ (20320 :> <<25311, 20522>>) @@
    (27877 :> <<20320>>) @@
    (24050 :> <<20197>>) @@ (20197 :> <<24050>>) @@
    (26410 :> <<26411>>) @@ (26411 :> <<26410>>) @@
    (32463 :> <<31455>>) @@ (31455 :> <<32463>>) @@
    (22240 :> <<24212>>) @@ (24212 :> <<22240>>) @@
    (26399 :> <<20854>>) @@ (20854 :> <<26399>>) @@
    (19982 :> <<21450, 21644>>) @@ (21450 :> <<19982>>) @@
    (21644 :> <<19982>>) @@
    (21040 :> <<20498>>) @@ (20498 :> <<21040>>)

\* data/confusion.yml is configuration; this is the mapping the model loads.
\* An editor of the file may list a character among its own alternatives.
CONFUSION_YML ==
    (Di :> <<Di, You, Ni>>) @@ (Dei :> <<Dei>>)

\* load_confusion (lexicon.py:50-76): an entry of the file replaces the
\* default entry of the same key
load_confusion == CONFUSION_YML @@ DEFAULT_CONFUSION

\* lexicon.py:79
CONFUSION == load_confusion

\* the built-in fallback of load_valid_words (lexicon.py:98); data/dict_core.txt absent
VALID_WORDS ==
    {<<20320, 22909>>, <<24744, 22909>>, <<38382, 22909>>, <<20449, 21495>>,
     <<32534, 21495>>, <<36134, 21495>>, <<21451, 22909>>, <<24418, 35937>>,
     <<25928, 26524>>}

LexIssue(rule_id, begin, end, t, hit, suggestions, confidence) ==
    [type |-> "lex", rule_id |-> rule_id, begin |-> begin, end |-> end,
     hit_text |-> hit, suggestions |-> suggestions, confidence |-> confidence,
     context_left |-> Slice(t, Max(0, begin - 8), begin),
     context_right |-> Slice(t, end, end + 8)]

\* CONFUSION.get(ch, [])
ConfusionOf(ch) == IF ch \in DOMAIN CONFUSION THEN CONFUSION[ch] ELSE <<>>

\* variant of ConfusionChars: the alternatives are offered as listed
RECURSIVE ConfusionCharsAsListed(_, _)
ConfusionCharsAsListed(t, i) ==
    IF i >= Len(t) THEN <<>>
    ELSE LET ch == At(t, i)
         IN  (IF ch \in DOMAIN CONFUSION
              THEN <<LexIssue("confusion_char", i, i + 1, t, <<ch>>, ConfusionOf(ch), 65)>>
              ELSE <<>>) \o ConfusionCharsAsListed(t, i + 1)

\* the single-character scan (lexicon.py:126-143)
RECURSIVE ConfusionChars(_, _)
ConfusionChars(t, i) ==
    IF i >= Len(t) THEN <<>>
    ELSE LET ch == At(t, i)
             suggestions == SelectSeq(ConfusionOf(ch), LAMBDA c : c # ch)
         IN  (IF ch \in DOMAIN CONFUSION /\ suggestions # <<>>
              THEN <<LexIssue("confusion_char", i, i + 1, t, <<ch>>, suggestions, 65)>>
              ELSE <<>>) \o ConfusionChars(t, i + 1)

\* variant of SmartSug: candidates are not looked up in VALID_WORDS
SmartSugAnyWord(w) ==
    {cand \in
        {<<ConfusionOf(w[1])[k], w[2]>> : k \in DOMAIN ConfusionOf(w[1])}
        \cup
        {<<w[1], ConfusionOf(w[2])[k]>> : k \in DOMAIN ConfusionOf(w[2])} :
        cand # w}

\* the candidates collected for window w (lexicon.py:146-155), as a set
SmartSug(w) ==
    {cand \in
        {<<ConfusionOf(w[1])[k], w[2]>> : k \in
            {k \in DOMAIN ConfusionOf(w[1]) : ConfusionOf(w[1])[k] # w[1]}}
        \cup
        {<<w[1], ConfusionOf(w[2])[k]>> : k \in
            {k \in DOMAIN ConfusionOf(w[2]) : ConfusionOf(w[2])[k] # w[2]}} :
        cand # w /\ cand \in VALID_WORDS}

\* two-character strings in Python's string order
WordLess(a, b) == a[1] < b[1] \/ (a[1] = b[1] /\ a[2] < b[2])

\* sorted(set(smart_sug))
RECURSIVE SortedWords(_)
SortedWords(S) ==
    IF S = {} THEN <<>>
    ELSE LET m == CHOOSE a \in S : \A b \in S \ {a} : WordLess(a, b)
         IN  <<m>> \o SortedWords(S \ {m})

\* the two-character scan (lexicon.py:145-170)
RECURSIVE ConfusionBigrams(_, _)
ConfusionBigrams(t, i) ==
    IF i >= Len(t) - 1 THEN <<>>
    ELSE LET w == Slice(t, i, i + 2)
         IN  (IF SmartSug(w) # {}
              THEN <<LexIssue("confusion_bigram_suggested", i, i + 2, t, w,
                              SortedWords(SmartSug(w)), 72)>>
              ELSE <<>>) \o ConfusionBigrams(t, i + 1)

run_lex_checks(t) ==
    IF t = <<>> THEN <<>> ELSE ConfusionChars(t, 0) \o ConfusionBigrams(t, 0)

-----------------------------------------------------------------------------
(* Configurable pattern engine: src/checker/patterns.py *)

\* The rule documents of data/rules are configuration; this is the rule set
\* the model loads: literal patterns (no metacharacters).
REGEX_RULES ==
    <<[rule_id |-> "no_de", pattern |-> <<De>>, suggest |-> <<"drop_de">>,
       confidence |-> 70]>>

\* regex.finditer for a literal pattern: leftmost, non-overlapping matches
RECURSIVE FindIter(_, _, _)
FindIter(t, w, start) ==
    LET i == Find(t, w, start)
    IN  IF i = -1 THEN <<>> ELSE <<i>> \o FindIter(t, w, i + Len(w))

\* RegexRule.run (patterns.py:59-75)
RegexRuleRun(rule, t) ==
    LET ms == FindIter(t, rule.pattern, 0)
    IN  [k \in 1..Len(ms) |->
            [type |-> "pattern", rule_id |-> rule.rule_id, begin |-> ms[k],
             end |-> ms[k] + Len(rule.pattern), hit_text |-> rule.pattern,
             suggestions |-> rule.suggest, confidence |-> rule.confidence,
             context_left |-> Slice(t, Max(0, ms[k] - 8), ms[k]),
             context_right |-> Slice(t, ms[k] + Len(rule.pattern),
                                     ms[k] + Len(rule.pattern) + 8)]]

\* concatenation of f[1], ..., f[n] for a sequence of sequences
RECURSIVE Flatten(_)
Flatten(ss) == IF ss = <<>> THEN <<>> ELSE Head(ss) \o Flatten(Tail(ss))

run_pattern_checks(t) ==
    Flatten([k \in 1..Len(REGEX_RULES) |-> RegexRuleRun(REGEX_RULES[k], t)])

-----------------------------------------------------------------------------
(* Term engine: src/checker/terms.py *)

\* data/invalid_terms.yml is configuration; this is the list the model loads
TERMS ==
    <<[term |-> <<Hao, Hao>>, suggestions |-> <<"good">>, confidence |-> 80],
      [term |-> <<Hao, De>>, suggestions |-> <<>>, confidence |-> 90]>>

\* variant of NextStart: the search resumes one character after the match began
NextStartPlusOne(found, term) == found + 1

\* the offset the next search starts from after a match found at offset `found` (terms.py:113)
NextStart(found, term) == found + Len(term)

\* the while-loop of terms.py:95-113 for one entry, searching from start
RECURSIVE TermScan(_, _, _)
TermScan(t, item, start) ==
    LET i == Find(t, item.term, start)
    IN  IF i = -1 THEN <<>>
        ELSE LET end == i + Len(item.term)
             IN  <<[type |-> "term", rule_id |-> "invalid_term", begin |-> i,
                    end |-> end, hit_text |-> item.term,
                    suggestions |-> item.suggestions,
                    confidence |-> item.confidence,
                    context_left |-> Slice(t, Max(0, i - 8), i),
                    context_right |-> Slice(t, end, end + 8)]>>
                 \o TermScan(t, item, NextStart(i, item.term))

run_term_checks(t) ==
    IF t = <<>> \/ TERMS = <<>> THEN <<>>
    ELSE Flatten([k \in 1..Len(TERMS) |-> TermScan(t, TERMS[k], 0)])

-----------------------------------------------------------------------------
(* POS sequence engine: src/checker/pos_patterns.py *)

\* part-of-speech tags are strings; here sequences of letters
Tags == {<<"v", "n">>, <<"n">>}

\* str.startswith
StartsWith(s, prefix) ==
    Len(prefix) <= Len(s) /\ SubSeq(s, 1, Len(prefix)) = prefix

\* The rule documents of data/rules are configuration; this is the rule set
\* the model loads.  A condition is a mapping with some of the keys word, tag.
POS_RULES ==
    <<[rule_id |-> "de_before_verb",
       sequence |-> <<[word |-> <<De>>], [tag |-> <<"v">>]>>,
       suggest |-> <<"use_di">>, confidence |-> 60]>>

\* variant of PosTokens: each word is searched from the start of the text
RECURSIVE PosTokensFromStart(_, _, _)
PosTokensFromStart(t, cut, offset) ==
    IF cut = <<>> THEN <<>>
    ELSE LET word == Head(cut).word
             found == Find(t, word, 0)
             begin == IF found < 0 THEN offset ELSE found
             end == begin + Len(word)
         IN  <<[word |-> word, tag |-> Head(cut).tag, begin |-> begin, end |-> end]>>
             \o PosTokensFromStart(t, Tail(cut), end)

\* the offset reconstruction of run_pos_checks (pos_patterns.py:137-146)
RECURSIVE PosTokens(_, _, _)
PosTokens(t, cut, offset) ==
    IF cut = <<>> THEN <<>>
    ELSE LET word == Head(cut).word
             found == Find(t, word, offset)
             begin == IF found < 0 THEN offset ELSE found
             end == begin + Len(word)
         IN  <<[word |-> word, tag |-> Head(cut).tag, begin |-> begin, end |-> end]>>
             \o PosTokens(t, Tail(cut), end)

\* the tests of one condition on one token (pos_patterns.py:59-73)
CondHolds(cond, tok) ==
    /\ "word" \in DOMAIN cond => tok.word = cond.word
    /\ "tag" \in DOMAIN cond => StartsWith(tok.tag, cond.tag)

\* PosRule.match (pos_patterns.py:51-90)
PosRuleMatch(rule, tokens) ==
    LET seq_len == Len(rule.sequence)
        starts == {i \in 0..(Len(tokens) - seq_len) :
                     \A j \in 0..(seq_len - 1) :
                        CondHolds(rule.sequence[j + 1], tokens[i + j + 1])}
        Hit(i) == Flatten([j \in 1..seq_len |-> tokens[i + j].word])
        RECURSIVE From(_)
        From(i) ==
            IF i > Len(tokens) - seq_len THEN <<>>
            ELSE (IF i \in starts
                  THEN <<[type |-> "pos", rule_id |-> rule.rule_id,
                          begin |-> tokens[i + 1].begin,
                          end |-> tokens[i + seq_len].end,
                          hit_text |-> Hit(i), suggestions |-> rule.suggest,
                          confidence |-> rule.confidence]>>
                  ELSE <<>>) \o From(i + 1)
    IN  IF seq_len = 0 THEN <<>> ELSE From(0)

\* the context added to each match (pos_patterns.py:150-155)
WithContext(m, t) ==
    [type |-> m.type, rule_id |-> m.rule_id, begin |-> m.begin, end |-> m.end,
     hit_text |-> m.hit_text, suggestions |-> m.suggestions,
     confidence |-> m.confidence,
     context_left |-> Slice(t, Max(0, m.begin - 8), m.begin),
     context_right |-> Slice(t, m.end, m.end + 8)]

\* A condition whose tag is a YAML list of tags is written with the key tags.
\* The tag test of such a condition is tok.tag.startswith(<list>), which
\* raises TypeError (pos_patterns.py:73); it is reached when the word test
\* of the condition has passed.
CondRaises(cond, tok) ==
    /\ "word" \in DOMAIN cond => tok.word = cond.word
    /\ "tags" \in DOMAIN cond

\* PosRule.match raises: some condition raises at some start index, the
\* conditions before it having held
PosRuleRaises(rule, tokens) ==
    LET seq_len == Len(rule.sequence)
    IN  /\ seq_len > 0
        /\ \E i \in 0..(Len(tokens) - seq_len) : \E j \in 0..(seq_len - 1) :
              /\ CondRaises(rule.sequence[j + 1], tokens[i + j + 1])
              /\ \A h \in 0..(j - 1) :
                    CondHolds(rule.sequence[h + 1], tokens[i + h + 1])

\* the loop of run_pos_checks over the rules (pos_patterns.py:147-156):
\* the issues built, unless a rule's match raises
PosIssues(rules, t, tokens) ==
    LET ms == Flatten([k \in 1..Len(rules) |-> PosRuleMatch(rules[k], tokens)])
    IN  [k \in 1..Len(ms) |-> WithContext(ms[k], t)]

PosRaises(rules, tokens) ==
    \E k \in 1..Len(rules) : PosRuleRaises(rules[k], tokens)

\* run_pos_checks for a text and what pseg.cut yields for it
run_pos_checks(t, cut) ==
    IF t = <<>> THEN <<>>
    ELSE PosIssues(POS_RULES, t, PosTokens(t, cut, 0))

\* The tagger is an external collaborator.  It segments the text; it gives no
\* offsets, and the model lets it also drop whitespace or return a
\* normalised surface form that does not occur in the text.
RECURSIVE Segs(_)
Segs(u) ==
    IF u = <<>> THEN {<<>>}
    ELSE UNION {{<<SubSeq(u, 1, k)>> \o s : s \in Segs(SubSeq(u, k + 1, Len(u)))} :
                  k \in 1..Len(u)}

TaggedSegs(u) ==
    UNION {{[i \in 1..Len(s) |-> [word |-> s[i], tag |-> tg[i]]] :
              tg \in [1..Len(s) -> Tags]} : s \in Segs(u)}

Squeeze(t) == SelectSeq(t, LAMBDA ch : ~IsSpace(ch))
Normalised(t) == [i \in 1..Len(t) |-> IF t[i] = De THEN Di ELSE t[i]]

Cut(t) == TaggedSegs(t) \cup TaggedSegs(Squeeze(t)) \cup TaggedSegs(Normalised(t))

-----------------------------------------------------------------------------
(* Spelling-model engine: src/checker/csc.py *)

\* the loop of csc.py:52-72 over the details the model returned
RECURSIVE CscIssues(_, _)
CscIssues(t, details) ==
    IF details = <<>> THEN <<>>
    ELSE LET d == Head(details)
             begin_idx == d.begin
             end_idx == d.end
         IN  (IF begin_idx < 0 \/ end_idx <= begin_idx \/ begin_idx >= Len(t)
              THEN <<>>
              ELSE <<[type |-> "csc", rule_id |-> "csc", begin |-> begin_idx,
                      end |-> end_idx, hit_text |-> Slice(t, begin_idx, end_idx),
                      suggestions |-> <<d.new>>, confidence |-> 90,
                      context_left |-> Slice(t, Max(0, begin_idx - 8), begin_idx),
                      context_right |-> Slice(t, end_idx, end_idx + 8)]>>)
             \o CscIssues(t, Tail(details))

\* What the spelling model can answer for a text: it is not loaded or
\* correct() raises (loaded = FALSE, csc.py:44-49), or it returns details,
\* possibly followed by an entry that does not unpack into four values
\* (bad_shape, which raises at csc.py:52).
CscAnswers(t) ==
    {[loaded |-> FALSE, details |-> <<>>, bad_shape |-> FALSE]} \cup
    {[loaded |-> TRUE, details |-> ds, bad_shape |-> b] :
        ds \in {<<>>} \cup
               {<<[old |-> Hao, new |-> 21495, begin |-> bg, end |-> en]>> :
                   bg \in (-1)..Len(t), en \in 0..(Len(t) + 1)},
        b \in BOOLEAN}

\* run_csc: the list built, and whether the call raised
run_csc(t, ans) ==
    IF ~ans.loaded \/ t = <<>> THEN [raised |-> FALSE, out |-> <<>>]
    ELSE [raised |-> ans.bad_shape, out |-> CscIssues(t, ans.details)]

-----------------------------------------------------------------------------
(* Rule documents and their loaders: load_regex_rules of patterns.py,      *)
(* load_pos_rules of pos_patterns.py, load_terms of terms.py               *)

\* An entry of the `rules` list of a YAML document is a mapping, written as
\* a record with the keys it has, or something else (a string, a number),
\* written NonMapping.  A confidence that is a number is under the key
\* confidence; one that is a non-numeric string is under confidence_str.
NonMapping == [non_mapping |-> TRUE]

IsMapping(e) == "non_mapping" \notin DOMAIN e

GoodRegex ==
    [kind |-> "regex", id |-> "no_de", pattern |-> <<De>>,
     suggest |-> <<"drop_de">>, confidence |-> 70]

GoodRegexNoConf ==
    [kind |-> "regex", id |-> "no_hao", pattern |-> <<Hao>>, suggest |-> <<>>]

GoodPos ==
    [kind |-> "pos", id |-> "de_before_verb",
     sequence |-> <<[word |-> <<De>>], [tag |-> <<"v">>]>>,
     suggest |-> <<"use_di">>, confidence |-> 60]

NoIdRegex == [kind |-> "regex", pattern |-> <<De>>, suggest |-> <<>>]

NoPatternRegex == [kind |-> "regex", id |-> "no_pattern", suggest |-> <<>>]

\* "(" is an unterminated group: re.compile raises
BadPatternRegex ==
    [kind |-> "regex", id |-> "bad_re", pattern |-> <<LParen>>, suggest |-> <<>>]

BadConfRegex ==
    [kind |-> "regex", id |-> "bad_conf", pattern |-> <<Hao>>,
     suggest |-> <<>>, confidence_str |-> "high"]

NoIdPos == [kind |-> "pos", sequence |-> <<[word |-> <<De>>]>>, suggest |-> <<>>]

BadConfPos ==
    [kind |-> "pos", id |-> "bad_conf_pos", sequence |-> <<[word |-> <<De>>]>>,
     suggest |-> <<>>, confidence_str |-> "high"]

RuleEntries ==
    {GoodRegex, GoodRegexNoConf, GoodPos, NoIdRegex, NoPatternRegex,
     BadPatternRegex, BadConfRegex, NoIdPos, BadConfPos, NonMapping}

\* rule_cfg.get(key) is truthy: the key is there (with a non-empty value)
Has(e, key) == key \in DOMAIN e

\* re.compile(pattern) succeeds, for the patterns of the model: literals
\* and the unterminated group
Compiles(pattern) == \A k \in DOMAIN pattern : pattern[k] # LParen

\* float(confidence) succeeds (patterns.py:47, pos_patterns.py:49)
FloatOk(e) == "confidence_str" \notin DOMAIN e

\* one iteration of the loop of load_regex_rules (patterns.py:91-106): what
\* it appends to `rules`, and whether an exception leaves the loop
RegexEntry(e) ==
    IF ~IsMapping(e) THEN [raised |-> TRUE, out |-> <<>>]
    ELSE IF ~("kind" \in DOMAIN e /\ e.kind = "regex")
         THEN [raised |-> FALSE, out |-> <<>>]
    ELSE IF ~Has(e, "id") \/ ~Has(e, "pattern")
         THEN [raised |-> FALSE, out |-> <<>>]
    ELSE IF ~FloatOk(e) \/ ~Compiles(e.pattern)
         THEN [raised |-> FALSE, out |-> <<>>]
    ELSE [raised |-> FALSE,
          out |-> <<[rule_id |-> e.id, pattern |-> e.pattern, suggest |-> e.suggest,
                     confidence |-> IF "confidence" \in DOMAIN e
                                    THEN e.confidence ELSE 70]>>]

\* one iteration of the loop of load_pos_rules (pos_patterns.py:106-117)
PosEntry(e) ==
    IF ~IsMapping(e) THEN [raised |-> TRUE, out |-> <<>>]
    ELSE IF ~Has(e, "sequence") THEN [raised |-> FALSE, out |-> <<>>]
    ELSE IF ~Has(e, "id") THEN [raised |-> FALSE, out |-> <<>>]
    ELSE IF ~FloatOk(e) THEN [raised |-> TRUE, out |-> <<>>]
    ELSE [raised |-> FALSE,
          out |-> <<[rule_id |-> e.id, sequence |-> e.sequence, suggest |-> e.suggest,
                     confidence |-> IF "confidence" \in DOMAIN e
                                    THEN e.confidence ELSE 60]>>]

\* one iteration of the loop of load_terms (terms.py:62-76)
TermEntry(e) ==
    IF ~IsMapping(e) THEN [raised |-> FALSE, out |-> <<>>]
    ELSE IF ~Has(e, "term") THEN [raised |-> FALSE, out |-> <<>>]
    ELSE [raised |-> FALSE,
          out |-> <<[term |-> e.term, suggestions |-> e.suggestions,
                     confidence |-> IF "confidence" \in DOMAIN e
                                    THEN e.confidence ELSE 80]>>]

\* a loop over the entries of one document inside try/except: the results
\* of the iterations up to the first one that raises
RECURSIVE UntilRaise(_)
UntilRaise(rs) ==
    IF rs = <<>> \/ Head(rs).raised THEN <<>>
    ELSE Head(rs).out \o UntilRaise(Tail(rs))

load_regex_rules(doc) == UntilRaise([k \in 1..Len(doc) |-> RegexEntry(doc[k])])

load_pos_rules(doc) == UntilRaise([k \in 1..Len(doc) |-> PosEntry(doc[k])])

load_terms(doc) == UntilRaise([k \in 1..Len(doc) |-> TermEntry(doc[k])])

-----------------------------------------------------------------------------
(* The lazily built module globals *)

\* a global is None or holds a value
None == [is_none |-> TRUE, val |-> <<>>]
Some(v) == [is_none |-> FALSE, val |-> v]

Caches == {"regex", "pos", "terms", "csc"}

\* patterns.py:112, pos_patterns.py:123, terms.py:44, csc.py:18
InitialCache ==
    [regex |-> None, pos |-> None, terms |-> Some(<<>>), csc |-> None]

\* the files the model's rule set and term list are loaded from
SampleDisk ==
    [rules |-> <<GoodRegex, GoodPos>>,
     terms |-> <<[term |-> <<Hao, Hao>>, suggestions |-> <<"good">>, confidence |-> 80],
                 [term |-> <<Hao, De>>, suggestions |-> <<>>, confidence |-> 90]>>,
     model_ok |-> FALSE]

\* the request threads of the cache specification
Threads == {1, 2}

IdleThread == [pc |-> "idle", c |-> "none", local |-> <<>>, k |-> 0, seen |-> <<>>]

\* the caches as they are when the module has been imported and no request
\* has used them
ConfAtImport ==
    /\ disk = SampleDisk
    /\ cache = InitialCache
    /\ thr = [t \in Threads |-> IdleThread]
    /\ built = {}

PosAtRest == tagged = <<>> /\ toks = <<>>

-----------------------------------------------------------------------------
(* Aggregator: api_check of src/app.py *)

\* the characters of the request texts the aggregator specification explores
Alphabet == {Hao, De, LParen, Space}

\* the flags of the request's modes mapping (app.py:42-48)
Flags == {"rule", "lex", "pat", "pos", "csc"}

\* the request carries no modes, or an empty mapping
NoModes == [f \in {} |-> FALSE]

DefaultModes ==
    [rule |-> TRUE, lex |-> TRUE, pat |-> TRUE, pos |-> TRUE, csc |-> FALSE]

\* modes = data.get('modes') or {...} (app.py:42)
EffectiveModes(req) == IF req = NoModes THEN DefaultModes ELSE req

\* variant of EngineOrder: the term block placed before the spelling-model block
EngineOrderTermFirst == <<"rule", "lex", "pat", "pos", "term", "csc">>

\* the order of the try-blocks of api_check (app.py:51-80)
EngineOrder == <<"rule", "lex", "pat", "pos", "csc", "term">>

Engines == {"rule", "lex", "pat", "pos", "csc", "term"}

\* the position after the try-block of engine e
After(e) ==
    LET k == CHOOSE i \in 1..Len(EngineOrder) : EngineOrder[i] = e
    IN  IF k = Len(EngineOrder) THEN "finish" ELSE EngineOrder[k + 1]

\* variant of TermEnabled: the term block guarded by a flag like the others
TermGated(m) == m.rule

\* the term block has no `if modes.get(...)` (app.py:76-78)
TermEnabled(m) == TRUE

\* variant of TryBlock: what a raising engine had built is kept
TryBlockPartial(cur, outcome) == cur \o outcome.out

\* `issues += engine(text)` inside try / except Exception: pass: an engine
\* call that raises never reaches the += (app.py:51-55)
TryBlock(cur, outcome) ==
    IF outcome.raised THEN cur ELSE cur \o outcome.out

Ended(outcome) == IF outcome.raised THEN "raised" ELSE "returned"

Returned(out) == [raised |-> FALSE, out |-> out]

\* variant of InsertByBegin: x goes before the elements with an equal key
InsertBeforeEqual(sorted, x) ==
    LET k == Cardinality({i \in 1..Len(sorted) : sorted[i].begin < x.begin})
    IN  SubSeq(sorted, 1, k) \o <<x>> \o SubSeq(sorted, k + 1, Len(sorted))

\* list.sort(key=begin) is stable: x goes after every element whose key is
\* not greater (app.py:82)
InsertByBegin(sorted, x) ==
    LET k == Cardinality({i \in 1..Len(sorted) : sorted[i].begin <= x.begin})
    IN  SubSeq(sorted, 1, k) \o <<x>> \o SubSeq(sorted, k + 1, Len(sorted))

RECURSIVE SortByBegin(_)
SortByBegin(s) ==
    IF s = <<>> THEN <<>>
    ELSE InsertByBegin(SortByBegin(SubSeq(s, 1, Len(s) - 1)), s[Len(s)])

\* variant of CountType: pattern issues looked up under the flag's name
CountTypeByFlag(s, ty) ==
    Cardinality({i \in 1..Len(s) : s[i].type = IF ty = "pattern" THEN "pat" ELSE ty})

\* sum(1 for i in issues if i.get('type') == ty)
CountType(s, ty) == Cardinality({i \in 1..Len(s) : s[i].type = ty})

\* the summary of app.py:84-94
Summary(s) ==
    [count |-> Len(s),
     by_type |-> [rule |-> CountType(s, "rule"), lex |-> CountType(s, "lex"),
                  pattern |-> CountType(s, "pattern"), pos |-> CountType(s, "pos"),
                  csc |-> CountType(s, "csc"), term |-> CountType(s, "term")]]

NoResp == [issues |-> <<>>, summary |-> [count |-> -1]]
NoExt == [pos |-> <<>>, csc |-> <<>>]
Pending == [e \in Engines |-> "pending"]

\* a request arrives: text is stripped, modes defaulted (app.py:38-50)
Receive ==
    /\ pc = "idle"
    /\ \E raw \in SeqsUpTo(Alphabet, MaxLen), req \in {NoModes} \cup [Flags -> BOOLEAN] :
          /\ text' = Strip(raw)
          /\ modes' = EffectiveModes(req)
    /\ issues' = <<>>
    /\ ext' = NoExt
    /\ status' = Pending
    /\ resp' = NoResp
    /\ pc' = EngineOrder[1]
    /\ UNCHANGED <<idx, stack>>
    /\ UNCHANGED <<conf_vars, pos_vars>>

\* one try-block whose engine is a function of the text alone
LocalBlock(e, enabled, out) ==
    /\ pc = e
    /\ IF enabled
       THEN /\ issues' = TryBlock(issues, Returned(out))
            /\ status' = [status EXCEPT ![e] = "returned"]
       ELSE /\ issues' = issues
            /\ status' = [status EXCEPT ![e] = "skipped"]
    /\ pc' = After(e)
    /\ UNCHANGED <<text, modes, ext, resp, idx, stack>>
    /\ UNCHANGED <<conf_vars, pos_vars>>

\* app.py:51-55
StepRule == LocalBlock("rule", modes.rule, run_rule_checks(text))

\* app.py:56-60
StepLex == LocalBlock("lex", modes.lex, run_lex_checks(text))

\* app.py:61-65
StepPat == LocalBlock("pat", modes.pat, run_pattern_checks(text))

\* app.py:66-70: the tagger is unavailable (pseg is None), raises while
\* cutting, or yields a token sequence
StepPos ==
    /\ pc = "pos"
    /\ IF modes.pos
       THEN \E outcome \in
                {Returned(<<>>), [raised |-> TRUE, out |-> <<>>]} \cup
                {Returned(run_pos_checks(text, cut)) : cut \in Cut(text)} :
               /\ issues' = TryBlock(issues, outcome)
               /\ ext' = [ext EXCEPT !.pos = outcome.out]
               /\ status' = [status EXCEPT !.pos = Ended(outcome)]
       ELSE /\ issues' = issues
            /\ ext' = ext
            /\ status' = [status EXCEPT !.pos = "skipped"]
    /\ pc' = After("pos")
    /\ UNCHANGED <<text, modes, resp, idx, stack>>
    /\ UNCHANGED <<conf_vars, pos_vars>>

\* app.py:71-75
StepCsc ==
    /\ pc = "csc"
    /\ IF modes.csc
       THEN \E ans \in CscAnswers(text) :
               LET outcome == run_csc(text, ans)
               IN  /\ issues' = TryBlock(issues, outcome)
                   /\ ext' = [ext EXCEPT !.csc = outcome.out]
                   /\ status' = [status EXCEPT !.csc = Ended(outcome)]
       ELSE /\ issues' = issues
            /\ ext' = ext
            /\ status' = [status EXCEPT !.csc = "skipped"]
    /\ pc' = After("csc")
    /\ UNCHANGED <<text, modes, resp, idx, stack>>
    /\ UNCHANGED <<conf_vars, pos_vars>>

\* app.py:76-80
StepTerm == LocalBlock("term", TermEnabled(modes), run_term_checks(text))

\* app.py:81-98: sort, summary, response.  The list as it was before the
\* in-place sort stays in `issues`; the sorted list is resp.issues.
Finish ==
    /\ pc = "finish"
    /\ resp' = [issues |-> SortByBegin(issues),
                summary |-> Summary(SortByBegin(issues))]
    /\ pc' = "done"
    /\ UNCHANGED <<text, modes, issues, ext, status, idx, stack>>
    /\ UNCHANGED <<conf_vars, pos_vars>>

\* the response is returned; the request's state is dropped
Respond ==
    /\ pc = "done"
    /\ pc' = "idle"
    /\ text' = <<>>
    /\ modes' = DefaultModes
    /\ issues' = <<>>
    /\ ext' = NoExt
    /\ status' = Pending
    /\ resp' = NoResp
    /\ UNCHANGED <<idx, stack>>
    /\ UNCHANGED <<conf_vars, pos_vars>>

Init ==
    /\ pc = "idle"
    /\ text = <<>>
    /\ modes = DefaultModes
    /\ issues = <<>>
    /\ ext = NoExt
    /\ status = Pending
    /\ resp = NoResp
    /\ idx = 0
    /\ stack = <<>>
    /\ ConfAtImport
    /\ PosAtRest

Next ==
    \/ Receive
    \/ StepRule
    \/ StepLex
    \/ StepPat
    \/ StepPos
    \/ StepCsc
    \/ StepTerm
    \/ Finish
    \/ Respond

Spec == Init /\ [][Next]_vars

-----------------------------------------------------------------------------
(* The bracket scan of run_rule_checks, one loop iteration per step *)

\* the characters of the texts the bracket-scan specification explores
ScanAlphabet == {FwLParen, FwRParen, LBrack, RBrack, Hao}

\* a non-empty text is being scanned (rules.py:40-41, 90-92)
InitBracket ==
    /\ pc = "scan"
    /\ text \in SeqsUpTo(ScanAlphabet, MaxScanLen) \ {<<>>}
    /\ idx = 0
    /\ stack = <<>>
    /\ issues = <<>>
    /\ modes = DefaultModes
    /\ ext = NoExt
    /\ status = Pending
    /\ resp = NoResp
    /\ ConfAtImport
    /\ PosAtRest

\* one iteration of `for idx, ch in enumerate(text)` (rules.py:92-111)
ScanStep ==
    /\ pc = "scan"
    /\ idx < Len(text)
    /\ LET r == BracketStep(text, stack, idx)
       IN  /\ stack' = r.stack
           /\ issues' = issues \o r.out
    /\ idx' = idx + 1
    /\ UNCHANGED <<text, modes, pc, ext, status, resp>>
    /\ UNCHANGED <<conf_vars, pos_vars>>

\* the loop is over: `for ch, idx in stack` (rules.py:112-125)
ScanEnd ==
    /\ pc = "scan"
    /\ idx = Len(text)
    /\ issues' = issues \o UnclosedIssues(text, stack)
    /\ pc' = "scanned"
    /\ UNCHANGED <<text, modes, ext, status, resp, idx, stack>>
    /\ UNCHANGED <<conf_vars, pos_vars>>

NextBracket ==
    \/ ScanStep
    \/ ScanEnd

SpecBracket == InitBracket /\ [][NextBracket]_vars

-----------------------------------------------------------------------------
(* The term engine on its own *)

\* the characters of the texts the term-engine specification explores
TermAlphabet == {Hao, De, LParen}

InitTerm ==
    /\ pc = "term_call"
    /\ text \in SeqsUpTo(TermAlphabet, MaxTermLen)
    /\ issues = <<>>
    /\ idx = 0
    /\ stack = <<>>
    /\ modes = DefaultModes
    /\ ext = NoExt
    /\ status = Pending
    /\ resp = NoResp
    /\ ConfAtImport
    /\ PosAtRest

\* run_term_checks(text) returns (terms.py:82-114)
TermCall ==
    /\ pc = "term_call"
    /\ issues' = run_term_checks(text)
    /\ pc' = "term_ret"
    /\ UNCHANGED <<text, modes, ext, status, resp, idx, stack>>
    /\ UNCHANGED <<conf_vars, pos_vars>>

NextTerm == TermCall

SpecTerm == InitTerm /\ [][NextTerm]_vars

-----------------------------------------------------------------------------
(* Properties of the aggregator, checked under Spec *)

Collected == pc \in {"finish", "done"}
Done == pc = "done"

\* the issue's span lies in the text and hit_text is the text's slice
SpanOk(i, t) ==
    /\ 0 <= i.begin
    /\ i.begin <= i.end
    /\ i.end <= Len(t)
    /\ i.hit_text = SubSeq(t, i.begin + 1, i.end)

\* C1: every issue produced by any engine satisfies
\* 0 <= begin <= end <= len(text) and hit_text == text[begin:end].
C1_IssueSpans ==
    \A k \in 1..Len(issues) : SpanOk(issues[k], text)

\* the documented engine precedence, and the order api_check invokes
SpecRank ==
    [rule |-> 1, lex |-> 2, pattern |-> 3, pos |-> 4, term |-> 5, csc |-> 6]
InvokedRank ==
    [rule |-> 1, lex |-> 2, pattern |-> 3, pos |-> 4, csc |-> 5, term |-> 6]

TiesFollow(rank) ==
    \A i, j \in 1..Len(resp.issues) :
        (i < j /\ resp.issues[i].begin = resp.issues[j].begin)
            => rank[resp.issues[i].type] <= rank[resp.issues[j].type]

Begins(s) == {s[k].begin : k \in 1..Len(s)}

\* C3: the returned list is sorted by begin ascending, and issues with equal
\* begin keep the relative order in which they were concatenated.
C3_SortedStable ==
    Done =>
        /\ Len(resp.issues) = Len(issues)
        /\ \A i, j \in 1..Len(resp.issues) :
              i < j => resp.issues[i].begin <= resp.issues[j].begin
        /\ \A b \in Begins(issues) :
              SelectSeq(resp.issues, LAMBDA x : x.begin = b)
                  = SelectSeq(issues, LAMBDA x : x.begin = b)

\* a response whose concatenated list was out of order and has a tie
\* between two different issues
C3_Witness ==
    /\ Done
    /\ \E i, j \in 1..Len(issues) : i < j /\ issues[i].begin > issues[j].begin
    /\ \E i, j \in 1..Len(resp.issues) :
          /\ i < j
          /\ resp.issues[i].begin = resp.issues[j].begin
          /\ resp.issues[i] # resp.issues[j]

CountedKinds == {"rule", "lex", "pattern", "pos", "csc", "term"}

\* C4: summary.count is the length of the returned list, the counts of
\* summary.by_type sum to it, and every issue's kind is a counted kind.
C4_SummaryCounts ==
    Done =>
        /\ resp.summary.count = Len(resp.issues)
        /\ resp.summary.by_type.rule + resp.summary.by_type.lex
             + resp.summary.by_type.pattern + resp.summary.by_type.pos
             + resp.summary.by_type.csc + resp.summary.by_type.term
             = resp.summary.count
        /\ \A k \in 1..Len(resp.issues) : resp.issues[k].type \in CountedKinds

\* a response with issues of every kind
C4_Witness ==
    /\ Done
    /\ \A ty \in CountedKinds : \E k \in 1..Len(resp.issues) : resp.issues[k].type = ty

AllFlagsOff == \A f \in Flags : ~modes[f]

\* C5: the term engine runs on every request, whatever the flags and
\* whatever earlier engines did; with every flag off the response holds
\* exactly the term engine's issues.
C5_TermAlwaysRuns ==
    Collected =>
        /\ status.term = "returned"
        /\ SelectSeq(issues, LAMBDA x : x.type = "term") = run_term_checks(text)
        /\ AllFlagsOff => issues = run_term_checks(text)
        /\ (AllFlagsOff /\ Done) => resp.issues = SortByBegin(run_term_checks(text))

\* a response to a request with every flag off that holds term issues
C5_Witness ==
    /\ Done
    /\ AllFlagsOff
    /\ resp.issues # <<>>

\* what an engine that returned hands to api_check
Output(e) ==
    CASE e = "rule" -> run_rule_checks(text)
      [] e = "lex" -> run_lex_checks(text)
      [] e = "pat" -> run_pattern_checks(text)
      [] e = "pos" -> ext.pos
      [] e = "csc" -> ext.csc
      [] e = "term" -> run_term_checks(text)

Contribution(e) == IF status[e] = "returned" THEN Output(e) ELSE <<>>

KindOf == [rule |-> "rule", lex |-> "lex", pat |-> "pattern", pos |-> "pos",
           csc |-> "csc", term |-> "term"]

\* C6: an engine that raises contributes nothing (not even what it had
\* built), every other enabled engine and the term engine contribute their
\* full output, and the response with its summary is still produced.
C6_PartialResults ==
    Collected =>
        /\ \A f \in Flags : modes[f] <=> status[f] \in {"returned", "raised"}
        /\ \A f \in Flags : ~modes[f] <=> status[f] = "skipped"
        /\ status.term = "returned"
        /\ issues = Contribution("rule") \o Contribution("lex") \o Contribution("pat")
                      \o Contribution("pos") \o Contribution("csc")
                      \o Contribution("term")
        /\ \A e \in Engines :
              status[e] = "raised" =>
                  \A k \in 1..Len(issues) : issues[k].type # KindOf[e]
        /\ Done => resp.summary.count = Len(issues)

\* a response to a request in which the spelling-model engine raised
\* after building an issue, and other engines contributed
C6_Witness ==
    /\ Done
    /\ status.csc = "raised"
    /\ ext.csc # <<>>
    /\ status.rule = "returned"
    /\ run_rule_checks(text) # <<>>
    /\ run_term_checks(text) # <<>>

-----------------------------------------------------------------------------
(* Properties of the bracket scan, checked under SpecBracket *)

Scanned == pc = "scanned"

\* the current character is a closer
AtCloser == pc = "scan" /\ idx < Len(text) /\ At(text, idx) \in Closers

\* C7: a closer pops the stack only when the stack is non-empty and the top
\* entry's expected closer equals it; in every other case exactly one
\* unpaired_bracket issue is emitted at the closer's index and the stack is
\* left as it was.  A text of two plain characters and a closer gives
\* exactly one unpaired issue, at index 2.
C7_CloserStep ==
    /\ [][AtCloser =>
            IF stack # <<>> /\ pairs[stack[Len(stack)].ch] = At(text, idx)
            THEN /\ stack' = SubSeq(stack, 1, Len(stack) - 1)
                 /\ issues' = issues
            ELSE /\ stack' = stack
                 /\ Len(issues') = Len(issues) + 1
                 /\ SubSeq(issues', 1, Len(issues)) = issues
                 /\ issues'[Len(issues')].rule_id = "unpaired_bracket"
                 /\ issues'[Len(issues')].begin = idx
                 /\ issues'[Len(issues')].end = idx + 1
                 /\ issues'[Len(issues')].hit_text = <<At(text, idx)>>]_vars
    /\ []((Scanned /\ text = <<Hao, Hao, FwRParen>>) =>
            /\ Len(issues) = 1
            /\ issues[1].rule_id = "unpaired_bracket"
            /\ issues[1].begin = 2)

\* a mismatched closer was seen while an opener was on the stack
C7_Witness ==
    /\ Scanned
    /\ stack # <<>>
    /\ \E k \in 1..Len(issues) :
          /\ issues[k].rule_id = "unpaired_bracket"
          /\ stack[1].idx < issues[k].begin

\* the bracket and quote characters of a text, in order
Brackets(t) == SelectSeq(t, LAMBDA ch : ch \in Openers \cup Closers)

\* properly nested: empty, or opener, nested, its closer, nested
RECURSIVE Balanced(_)
Balanced(w) ==
    \/ w = <<>>
    \/ /\ w[1] \in Openers
       /\ \E k \in 2..Len(w) :
             /\ w[k] = pairs[w[1]]
             /\ Balanced(SubSeq(w, 2, k - 1))
             /\ Balanced(SubSeq(w, k + 1, Len(w)))

\* C8: a text whose bracket and quote characters are properly nested gets
\* no unpaired_bracket and no unclosed_bracket issue.
C8_BalancedNoIssues ==
    (Scanned /\ Balanced(Brackets(text))) => issues = <<>>

\* a scanned text with two kinds of brackets, nested
C8_Witness ==
    /\ Scanned
    /\ Balanced(Brackets(text))
    /\ \E i \in 1..(Len(text) - 1) : text[i] = FwLParen /\ text[i + 1] = LBrack
    /\ issues = <<>>

\* C9: after the scan, each entry left on the stack gives exactly one
\* unclosed_bracket issue, at the opener's index, with the opener as
\* hit_text and confidence 0.6, in bottom-to-top (ascending index) order.
\* A text of an opener and two plain characters gives exactly one unclosed
\* issue, at index 0.
C9_UnclosedPerEntry ==
    Scanned =>
        LET un == SelectSeq(issues, LAMBDA x : x.rule_id = "unclosed_bracket")
        IN  /\ Len(un) = Len(stack)
            /\ SubSeq(issues, Len(issues) - Len(un) + 1, Len(issues)) = un
            /\ \A k \in 1..Len(un) :
                  /\ un[k].begin = stack[k].idx
                  /\ un[k].end = stack[k].idx + 1
                  /\ un[k].hit_text = <<stack[k].ch>>
                  /\ At(text, un[k].begin) = stack[k].ch
                  /\ un[k].confidence = 60
            /\ \A k \in 1..(Len(un) - 1) : un[k].begin < un[k + 1].begin
            /\ text = <<FwLParen, Hao, Hao>> =>
                  /\ Len(issues) = 1
                  /\ issues[1].rule_id = "unclosed_bracket"
                  /\ issues[1].begin = 0
                  /\ issues[1].hit_text = <<FwLParen>>

\* two openers were left on the stack
C9_Witness ==
    /\ Scanned
    /\ Len(stack) >= 2
    /\ Len(SelectSeq(issues, LAMBDA x : x.rule_id = "unclosed_bracket")) >= 2

-----------------------------------------------------------------------------
(* Properties of the term engine, checked under SpecTerm *)

\* the offsets at which w occurs in t
Occurrences(t, w) == {i \in 0..Len(t) : Occurs(t, w, i)}

IssuesOf(term) == SelectSeq(issues, LAMBDA x : x.hit_text = term)

\* C10: for each configured term, one invalid_term issue per occurrence
\* found by a left-to-right search that restarts at the previous match's
\* end: the issues of one term never overlap, and a term that occurs
\* exactly twice, without overlap, gets exactly two issues.
C10_TermOccurrences ==
    pc = "term_ret" =>
        \A n \in 1..Len(TERMS) :
            LET term == TERMS[n].term
                occ == Occurrences(text, term)
                mine == IssuesOf(term)
                FirstFrom(start) ==
                    CHOOSE i \in occ : i >= start /\ \A j \in occ : j >= start => i <= j
            IN  /\ \A k \in 1..Len(mine) :
                      /\ mine[k].rule_id = "invalid_term"
                      /\ mine[k].type = "term"
                      /\ mine[k].begin \in occ
                      /\ mine[k].end = mine[k].begin + Len(term)
                /\ \A k \in 1..(Len(mine) - 1) : mine[k].end <= mine[k + 1].begin
                /\ (mine = <<>>) <=> (occ = {})
                /\ mine # <<>> => mine[1].begin = FirstFrom(0)
                /\ \A k \in 1..(Len(mine) - 1) :
                      mine[k + 1].begin = FirstFrom(mine[k].end)
                /\ mine # <<>> => \A i \in occ : i < mine[Len(mine)].end
                /\ (\E p, q \in occ : occ = {p, q} /\ p + Len(term) <= q)
                      => Len(mine) = 2

\* a text in which a term that can overlap itself occurs exactly twice,
\* without overlap
C10_Witness ==
    /\ pc = "term_ret"
    /\ Cardinality(Occurrences(text, <<Hao, Hao>>)) = 2
    /\ Len(IssuesOf(<<Hao, Hao>>)) = 2

-----------------------------------------------------------------------------
(* The lexicon engine run on its own: run_lex_checks of lexicon.py *)

\* longest text explored by the lexicon-engine specification
MaxLexLen == 3

\* keys of the confusion table (one listing itself, one listing only
\* itself), characters that form valid words, and a character that is no key
LexAlphabet == {Hao, HaoMark, Ni, Di, Dei, LParen}

InitLex ==
    /\ pc = "lex_call"
    /\ text \in SeqsUpTo(LexAlphabet, MaxLexLen)
    /\ issues = <<>>
    /\ idx = 0
    /\ stack = <<>>
    /\ modes = DefaultModes
    /\ ext = NoExt
    /\ status = Pending
    /\ resp = NoResp
    /\ ConfAtImport
    /\ PosAtRest

LexCall ==
    /\ pc = "lex_call"
    /\ issues' = run_lex_checks(text)
    /\ pc' = "lex_ret"
    /\ UNCHANGED <<text, modes, ext, status, resp, idx, stack>>
    /\ UNCHANGED <<conf_vars, pos_vars>>

NextLex == LexCall

SpecLex == InitLex /\ [][NextLex]_vars

-----------------------------------------------------------------------------
(* C11 *)

LexReturned == pc = "lex_ret"

\* the alternatives the confusion table lists for ch (none if ch is no key)
Alternatives(ch) == {ConfusionOf(ch)[k] : k \in DOMAIN ConfusionOf(ch)}

CharIssues == SelectSeq(issues, LAMBDA x : x.rule_id = "confusion_char")

\* C11: a confusion_char issue is only ever emitted at a position of the text
\* whose character is a key of the confusion table; its suggestion list is
\* never empty and never contains that character itself; and a key all of
\* whose alternatives are the key itself gets no issue.
C11_ConfusionChar ==
    LexReturned =>
        /\ \A k \in 1..Len(CharIssues) :
              LET x == CharIssues[k]
              IN  /\ x.begin \in 0..(Len(text) - 1)
                  /\ x.end = x.begin + 1
                  /\ At(text, x.begin) \in DOMAIN CONFUSION
                  /\ x.suggestions # <<>>
                  /\ \A j \in 1..Len(x.suggestions) :
                        x.suggestions[j] # At(text, x.begin)
        /\ \A i \in 0..(Len(text) - 1) :
              Alternatives(At(text, i)) \subseteq {At(text, i)} =>
                  \A k \in 1..Len(CharIssues) : CharIssues[k].begin # i

\* a text with a key that lists itself among its alternatives (an issue
\* without it), a key that lists only itself (no issue) and a non-key
C11_Witness ==
    /\ LexReturned
    /\ \E i, j, n \in 0..(Len(text) - 1) :
          /\ At(text, i) = Di /\ At(text, j) = Dei /\ At(text, n) = LParen
          /\ \E k \in 1..Len(CharIssues) :
                CharIssues[k].begin = i /\ CharIssues[k].suggestions = <<You, Ni>>
          /\ \A k \in 1..Len(CharIssues) : CharIssues[k].begin \notin {j, n}

-----------------------------------------------------------------------------
(* C12 *)

\* the valid words, other than w, reached from w by replacing one of its two
\* characters by one of that character's confusion alternatives
Candidates(w) ==
    {c \in VALID_WORDS :
        /\ c # w
        /\ \/ c[2] = w[2] /\ c[1] \in Alternatives(w[1])
           \/ c[1] = w[1] /\ c[2] \in Alternatives(w[2])}

BigramIssuesAt(i) ==
    SelectSeq(issues, LAMBDA x : x.rule_id = "confusion_bigram_suggested"
                                   /\ x.begin = i)

BigramIssues ==
    SelectSeq(issues, LAMBDA x : x.rule_id = "confusion_bigram_suggested")

\* C12: for every window w of two adjacent characters there is exactly one
\* confusion_bigram_suggested issue if Candidates(w) is not empty and none
\* otherwise; the issue spans the window and its suggestions are exactly
\* Candidates(w), in strictly increasing (sorted, duplicate-free) order.
C12_BigramSuggestions ==
    LexReturned =>
        /\ \A k \in 1..Len(BigramIssues) :
              BigramIssues[k].begin \in 0..(Len(text) - 2)
        /\ \A i \in 0..(Len(text) - 2) :
              LET w == Slice(text, i, i + 2)
                  xs == BigramIssuesAt(i)
              IN  IF Candidates(w) = {} THEN xs = <<>>
                  ELSE /\ Len(xs) = 1
                       /\ xs[1].end = i + 2
                       /\ xs[1].hit_text = w
                       /\ {xs[1].suggestions[j] : j \in DOMAIN xs[1].suggestions}
                             = Candidates(w)
                       /\ \A j \in 1..(Len(xs[1].suggestions) - 1) :
                             WordLess(xs[1].suggestions[j], xs[1].suggestions[j + 1])

\* a window with two candidates, collected in the other order, next to a
\* window with none
C12_Witness ==
    /\ LexReturned
    /\ text = <<Di, Hao, Hao>>
    /\ Len(BigramIssues) = 1
    /\ BigramIssues[1].suggestions = <<(<<Ni, Hao>>), (<<You, Hao>>)>>

-----------------------------------------------------------------------------
(* C13 *)

\* C13: no correction with out-of-range offsets is surfaced: every issue the
\* spelling-model engine built has 0 <= begin < end <= len(text).
C13_InvalidOffsetsDiscarded ==
    \A k \in 1..Len(ext.csc) :
        /\ ext.csc[k].begin >= 0
        /\ ext.csc[k].end > ext.csc[k].begin
        /\ ext.csc[k].begin < Len(text)
        /\ ext.csc[k].end <= Len(text)

-----------------------------------------------------------------------------
(* The lazily built caches used by concurrent requests: run_pattern_checks *)
(* of patterns.py, run_pos_checks of pos_patterns.py, run_csc and          *)
(* load_csc_model of csc.py, load_terms of terms.py.  Flask's server runs  *)
(* each request in a thread of its own (app.py:124).                       *)

\* the order in which a request with every engine enabled reaches the caches
\* (app.py:61-80)
CacheOrder == <<"regex", "pos", "csc", "terms">>

\* the documents and packages a process may find installed
CacheDisks ==
    [rules : {<<GoodRegex, GoodPos>>,
              <<GoodRegex, GoodRegexNoConf, GoodPos, GoodPos>>},
     terms : {<<>>, SampleDisk.terms},
     model_ok : BOOLEAN]

\* the document a cache is loaded from
Doc(c) == IF c = "terms" THEN disk.terms ELSE disk.rules

\* one iteration of the loader's loop
Entry(c, e) ==
    CASE c = "regex" -> RegexEntry(e)
      [] c = "pos" -> PosEntry(e)
      [] c = "terms" -> TermEntry(e)

\* the test that guards the load: `is None` (patterns.py:118,
\* pos_patterns.py:131, csc.py:41), truthiness of the list (terms.py:50)
IsLoaded(c) == IF c = "terms" THEN cache.terms.val # <<>> ELSE ~cache[c].is_none

\* variant of WhileBuilding: the global names the list while it is appended to
WhileBuildingAliased(cur, local) == Some(local)

\* the global while a loader appends to its local list: untouched
\* (patterns.py:79 and 119, pos_patterns.py:94 and 132, terms.py:52 and 78)
WhileBuilding(cur, local) == cur

\* the spelling model object
CscModel == <<"MacBertCorrector">>

\* a request arrives and reaches its first engine that uses a cache
Begin(t) ==
    /\ thr[t].pc = "idle"
    /\ thr' = [thr EXCEPT ![t] = [pc |-> "check", c |-> 1, local |-> <<>>,
                                  k |-> 0, seen |-> <<>>]]
    /\ UNCHANGED <<disk, cache, built>>
    /\ UNCHANGED <<text, modes, pc, issues, ext, status, resp, idx, stack, pos_vars>>

\* the guard of the lazy load
Check(t) ==
    /\ thr[t].pc = "check"
    /\ LET c == CacheOrder[thr[t].c]
       IN  thr' = [thr EXCEPT ![t].pc = IF IsLoaded(c) THEN "use" ELSE "build",
                              ![t].local = IF IsLoaded(c) THEN cache[c].val ELSE <<>>,
                              ![t].k = 0]
    /\ UNCHANGED <<disk, cache, built>>
    /\ UNCHANGED <<text, modes, pc, issues, ext, status, resp, idx, stack, pos_vars>>

\* one iteration of a loader's loop; an exception ends the loop
BuildStep(t) ==
    /\ thr[t].pc = "build"
    /\ CacheOrder[thr[t].c] # "csc"
    /\ thr[t].k < Len(Doc(CacheOrder[thr[t].c]))
    /\ LET c == CacheOrder[thr[t].c]
           r == Entry(c, Doc(c)[thr[t].k + 1])
           grown == thr[t].local \o r.out
       IN  /\ thr' = [thr EXCEPT ![t].local = grown,
                                 ![t].k = IF r.raised THEN Len(Doc(c)) ELSE @ + 1]
           /\ cache' = [cache EXCEPT ![c] = WhileBuilding(@, grown)]
    /\ UNCHANGED <<disk, built>>
    /\ UNCHANGED <<text, modes, pc, issues, ext, status, resp, idx, stack, pos_vars>>

\* the loader returns and the global is assigned (patterns.py:119,
\* pos_patterns.py:132, terms.py:78)
Publish(t) ==
    /\ thr[t].pc = "build"
    /\ CacheOrder[thr[t].c] # "csc"
    /\ thr[t].k = Len(Doc(CacheOrder[thr[t].c]))
    /\ cache' = [cache EXCEPT ![CacheOrder[thr[t].c]] = Some(thr[t].local)]
    /\ built' = built \cup {CacheOrder[thr[t].c]}
    /\ thr' = [thr EXCEPT ![t].pc = "use"]
    /\ UNCHANGED disk
    /\ UNCHANGED <<text, modes, pc, issues, ext, status, resp, idx, stack, pos_vars>>

\* load_csc_model (csc.py:21-31)
LoadCsc(t) ==
    /\ thr[t].pc = "build"
    /\ CacheOrder[thr[t].c] = "csc"
    /\ cache' = [cache EXCEPT !.csc = IF ~cache.csc.is_none THEN cache.csc
                                      ELSE IF disk.model_ok THEN Some(CscModel)
                                      ELSE None]
    /\ built' = built \cup {"csc"}
    /\ thr' = [thr EXCEPT ![t].pc = "use"]
    /\ UNCHANGED disk
    /\ UNCHANGED <<text, modes, pc, issues, ext, status, resp, idx, stack, pos_vars>>

\* the engine reads its rules: the global (patterns.py:121,
\* pos_patterns.py:149, csc.py:44), or what load_terms returned (terms.py:87)
Use(t) ==
    /\ thr[t].pc = "use"
    /\ LET c == CacheOrder[thr[t].c]
           read == IF c = "terms" THEN Some(thr[t].local) ELSE cache[c]
       IN  thr' = [thr EXCEPT ![t].seen = Append(@, [c |-> c, val |-> read]),
                              ![t].pc = IF thr[t].c = Len(CacheOrder)
                                        THEN "done" ELSE "check",
                              ![t].c = IF thr[t].c = Len(CacheOrder)
                                       THEN @ ELSE @ + 1,
                              ![t].local = <<>>,
                              ![t].k = 0]
    /\ UNCHANGED <<disk, cache, built>>
    /\ UNCHANGED <<text, modes, pc, issues, ext, status, resp, idx, stack, pos_vars>>

\* the request ends; the thread serves the next one
End(t) ==
    /\ thr[t].pc = "done"
    /\ thr' = [thr EXCEPT ![t] = IdleThread]
    /\ UNCHANGED <<disk, cache, built>>
    /\ UNCHANGED <<text, modes, pc, issues, ext, status, resp, idx, stack, pos_vars>>

InitCache ==
    /\ pc = "serving"
    /\ text = <<>>
    /\ issues = <<>>
    /\ idx = 0
    /\ stack = <<>>
    /\ modes = DefaultModes
    /\ ext = NoExt
    /\ status = Pending
    /\ resp = NoResp
    /\ disk \in CacheDisks
    /\ cache = InitialCache
    /\ thr = [t \in Threads |-> IdleThread]
    /\ built = {}
    /\ PosAtRest

NextCache ==
    \E t \in Threads :
        \/ Begin(t)
        \/ Check(t)
        \/ BuildStep(t)
        \/ Publish(t)
        \/ LoadCsc(t)
        \/ Use(t)
        \/ End(t)

SpecCache == InitCache /\ [][NextCache]_vars

-----------------------------------------------------------------------------
(* C14 *)

\* what a complete run of a cache's loader yields for the files on disk
FullyBuilt(c) ==
    CASE c = "regex" -> Some(load_regex_rules(disk.rules))
      [] c = "pos" -> Some(load_pos_rules(disk.rules))
      [] c = "terms" -> Some(load_terms(disk.terms))

ListCaches == {"regex", "pos", "terms"}

\* C14: whatever the interleaving of the two request threads, each rule or
\* term cache is at every moment either the not-yet-built marker or the
\* complete list its loader yields (so every publication, by either builder,
\* is that same list), and every list an engine read for use is complete.
C14_NoPartialCache ==
    /\ \A c \in ListCaches : cache[c] \in {InitialCache[c], FullyBuilt(c)}
    /\ \A t \in Threads : \A j \in 1..Len(thr[t].seen) :
          thr[t].seen[j].c \in ListCaches =>
              thr[t].seen[j].val = FullyBuilt(thr[t].seen[j].c)

\* both threads found the pattern cache unbuilt and build it; one has
\* published and used its list while the other's list is still partial
C14_Witness ==
    \E t, u \in Threads :
        /\ thr[t].pc = "build" /\ CacheOrder[thr[t].c] = "regex"
        /\ Len(thr[t].local) = 1
        /\ Len(FullyBuilt("regex").val) = 2
        /\ Len(thr[u].seen) >= 1
        /\ "regex" \in built

-----------------------------------------------------------------------------
(* C15 *)

\* C15: once the first load of a cache has completed, no request's guard
\* sends it into the loader again and the cache keeps its contents.
C15_BuiltOnce ==
    [][\A c \in built :
          /\ cache'[c] = cache[c]
          /\ \A t \in Threads :
                ~(/\ thr[t].pc = "check"
                  /\ CacheOrder[thr[t].c] = c
                  /\ thr'[t].pc = "build")]_vars

-----------------------------------------------------------------------------
(* The POS engine run on its own: run_pos_checks of pos_patterns.py, the   *)
(* implementation app.py imports (app.py:20)                               *)

\* longest text explored by the POS-engine specification
MaxPosLen == 3

PosAlphabet == {De, Hao}

\* the tags the tagger gives in the POS-engine specification
PosTags == Tags \cup {<<"v">>}

\* rule declarations: a tag that is matched by prefix only, a tag set, a tag
\* set behind a word test
TagVnPos ==
    [kind |-> "pos", id |-> "verbal_noun", sequence |-> <<[tag |-> <<"v", "n">>]>>,
     suggest |-> <<>>, confidence |-> 60]

TagSetPos ==
    [kind |-> "pos", id |-> "verb_or_noun",
     sequence |-> <<[tags |-> <<(<<"v">>), (<<"n">>)>>]>>,
     suggest |-> <<>>, confidence |-> 60]

WordTagSetPos ==
    [kind |-> "pos", id |-> "de_then_verb_or_noun",
     sequence |-> <<[word |-> <<De>>], [word |-> <<Hao>>, tags |-> <<(<<"v">>), (<<"n">>)>>]>>,
     suggest |-> <<>>, confidence |-> 60]

\* the rule documents of the POS-engine specification
PosDocs ==
    {<<GoodPos>>, <<GoodPos, TagVnPos>>, <<TagSetPos>>, <<GoodPos, WordTagSetPos>>}

\* the tagger segments the text and tags each word
PosCuts(u) ==
    UNION {{[i \in 1..Len(s) |-> [word |-> s[i], tag |-> tg[i]]] :
              tg \in [1..Len(s) -> PosTags]} : s \in Segs(u)}

\* the rules have been loaded by an earlier request
InitPos ==
    /\ pc = "pos_call"
    /\ text \in SeqsUpTo(PosAlphabet, MaxPosLen)
    /\ issues = <<>>
    /\ idx = 0
    /\ stack = <<>>
    /\ modes = DefaultModes
    /\ ext = NoExt
    /\ status = Pending
    /\ resp = NoResp
    /\ \E doc \in PosDocs :
          /\ disk = [SampleDisk EXCEPT !.rules = doc]
          /\ cache = [InitialCache EXCEPT !.pos = Some(load_pos_rules(doc))]
    /\ thr = [t \in Threads |-> IdleThread]
    /\ built = {"pos"}
    /\ PosAtRest

\* pos_patterns.py:133-134
PosEmptyText ==
    /\ pc = "pos_call"
    /\ text = <<>>
    /\ pc' = "pos_ret"
    /\ UNCHANGED <<text, modes, issues, ext, status, resp, idx, stack>>
    /\ UNCHANGED <<conf_vars, pos_vars>>

\* pos_patterns.py:136-146
PosTokenize ==
    /\ pc = "pos_call"
    /\ text # <<>>
    /\ \E c \in PosCuts(text) :
          /\ tagged' = c
          /\ toks' = PosTokens(text, c, 0)
    /\ pc' = "pos_match"
    /\ UNCHANGED <<text, modes, issues, ext, status, resp, idx, stack>>
    /\ UNCHANGED conf_vars

\* pos_patterns.py:147-156
PosMatch ==
    /\ pc = "pos_match"
    /\ IF PosRaises(cache.pos.val, toks)
       THEN /\ pc' = "pos_raised"
            /\ issues' = <<>>
       ELSE /\ pc' = "pos_ret"
            /\ issues' = PosIssues(cache.pos.val, text, toks)
    /\ UNCHANGED <<text, modes, ext, status, resp, idx, stack>>
    /\ UNCHANGED <<conf_vars, pos_vars>>

NextPos ==
    \/ PosEmptyText
    \/ PosTokenize
    \/ PosMatch

SpecPos == InitPos /\ [][NextPos]_vars

-----------------------------------------------------------------------------
(* C16 *)

\* the tag requirement of a condition: the token's tag equals or starts
\* with the expected tag, or with one of the expected tags
TagCompatible(cond, tok) ==
    /\ "tag" \in DOMAIN cond =>
          tok.tag = cond.tag \/ StartsWith(tok.tag, cond.tag)
    /\ "tags" \in DOMAIN cond =>
          \E m \in 1..Len(cond.tags) :
              tok.tag = cond.tags[m] \/ StartsWith(tok.tag, cond.tags[m])

Satisfies(cond, tok) ==
    /\ "word" \in DOMAIN cond => tok.word = cond.word
    /\ TagCompatible(cond, tok)

\* the start indices at which all conditions of the rule hold
MatchStarts(rule) ==
    {i \in 0..(Len(toks) - Len(rule.sequence)) :
        \A j \in 1..Len(rule.sequence) : Satisfies(rule.sequence[j], toks[i + j])}

PosEnded == pc \in {"pos_ret", "pos_raised"}

\* C16: when the POS engine has run, each loaded rule has, for every start
\* index at which all its conditions hold (tags matched by equality or
\* prefix, a tag set by any member), exactly one issue spanning those tokens,
\* and no other issue.
C16_PosMatches ==
    (PosEnded /\ text # <<>>) =>
        \A r \in 1..Len(cache.pos.val) :
            LET rule == cache.pos.val[r]
                k == Len(rule.sequence)
                mine == SelectSeq(issues, LAMBDA x : x.rule_id = rule.rule_id)
            IN  /\ Len(mine) = Cardinality(MatchStarts(rule))
                /\ \A i \in MatchStarts(rule) :
                      \E n \in 1..Len(mine) :
                          /\ mine[n].begin = toks[i + 1].begin
                          /\ mine[n].end = toks[i + k].end

-----------------------------------------------------------------------------
(* The two rule loaders run on one rule document: load_regex_rules of      *)
(* patterns.py and load_pos_rules of pos_patterns.py                       *)

\* most entries in the rule document of the loader specification
MaxDocLen == 3

InitLoad ==
    /\ pc = "load_regex"
    /\ text = <<>>
    /\ issues = <<>>
    /\ idx = 0
    /\ stack = <<>>
    /\ modes = DefaultModes
    /\ ext = NoExt
    /\ status = Pending
    /\ resp = NoResp
    /\ \E doc \in SeqsUpTo(RuleEntries, MaxDocLen) :
          disk = [SampleDisk EXCEPT !.rules = doc]
    /\ cache = InitialCache
    /\ thr = [t \in Threads |-> IdleThread]
    /\ built = {}
    /\ PosAtRest

\* patterns.py:119
LoadRegexRules ==
    /\ pc = "load_regex"
    /\ cache' = [cache EXCEPT !.regex = Some(load_regex_rules(disk.rules))]
    /\ built' = built \cup {"regex"}
    /\ pc' = "load_pos"
    /\ UNCHANGED <<text, modes, issues, ext, status, resp, idx, stack>>
    /\ UNCHANGED <<disk, thr, pos_vars>>

\* pos_patterns.py:132
LoadPosRules ==
    /\ pc = "load_pos"
    /\ cache' = [cache EXCEPT !.pos = Some(load_pos_rules(disk.rules))]
    /\ built' = built \cup {"pos"}
    /\ pc' = "loaded"
    /\ UNCHANGED <<text, modes, issues, ext, status, resp, idx, stack>>
    /\ UNCHANGED <<disk, thr, pos_vars>>

NextLoad ==
    \/ LoadRegexRules
    \/ LoadPosRules

SpecLoad == InitLoad /\ [][NextLoad]_vars

-----------------------------------------------------------------------------
(* C17 *)

\* a well-formed declaration of a regex rule, of a POS rule
WellFormedRegex(e) ==
    /\ IsMapping(e)
    /\ "kind" \in DOMAIN e /\ e.kind = "regex"
    /\ "id" \in DOMAIN e
    /\ "pattern" \in DOMAIN e /\ Compiles(e.pattern)
    /\ "confidence_str" \notin DOMAIN e

WellFormedPos(e) ==
    /\ IsMapping(e)
    /\ "sequence" \in DOMAIN e
    /\ "id" \in DOMAIN e
    /\ "confidence_str" \notin DOMAIN e

RuleIds(rules) == [k \in 1..Len(rules) |-> rules[k].rule_id]

EntryIds(es) == [k \in 1..Len(es) |-> es[k].id]

\* C17: after loading a document, each loader holds exactly the well-formed
\* rules of its kind, in document order, whatever malformed entries stand
\* before or after them.
C17_MalformedSkipped ==
    pc = "loaded" =>
        /\ RuleIds(cache.regex.val) = EntryIds(SelectSeq(disk.rules, WellFormedRegex))
        /\ RuleIds(cache.pos.val) = EntryIds(SelectSeq(disk.rules, WellFormedPos))

-----------------------------------------------------------------------------
(* The structural rule engine run on its own: run_rule_checks of rules.py *)

\* longest text explored by the rule-engine specification
MaxDeLen == 5

DeAlphabet == {Hao, De, Di, Dei, LParen}

InitRule ==
    /\ pc = "rule_call"
    /\ text \in SeqsUpTo(DeAlphabet, MaxDeLen)
    /\ issues = <<>>
    /\ idx = 0
    /\ stack = <<>>
    /\ modes = DefaultModes
    /\ ext = NoExt
    /\ status = Pending
    /\ resp = NoResp
    /\ ConfAtImport
    /\ PosAtRest

RuleCall ==
    /\ pc = "rule_call"
    /\ issues' = run_rule_checks(text)
    /\ pc' = "rule_ret"
    /\ UNCHANGED <<text, modes, ext, status, resp, idx, stack>>
    /\ UNCHANGED <<conf_vars, pos_vars>>

NextRule == RuleCall

SpecRule == InitRule /\ [][NextRule]_vars

-----------------------------------------------------------------------------
(* C18 *)

\* the rule id of each particle's heuristic (rules.py:134, 149, 164)
ParticleRule == (De :> "de_maybe_di") @@ (Di :> "di_maybe_de") @@ (Dei :> "dei_maybe_de")

\* the particle p stands at offset i between two CJK characters
ParticleAt(p, i) ==
    /\ i >= 1 /\ i + 1 < Len(text)
    /\ At(text, i) = p
    /\ IsCJK(At(text, i - 1))
    /\ IsCJK(At(text, i + 1))

\* C18: each of the three heuristics has exactly one issue, of length 1 at
\* the particle's offset, for every occurrence of its particle between two
\* CJK characters, and no issue at any other offset.
C18_EveryOccurrence ==
    pc = "rule_ret" =>
        \A p \in DOMAIN ParticleRule : \A i \in 0..(Len(text) - 1) :
            LET hits == SelectSeq(issues, LAMBDA x : x.rule_id = ParticleRule[p]
                                                       /\ x.begin = i)
            IN  IF ParticleAt(p, i)
                THEN Len(hits) = 1 /\ hits[1].end = i + 1
                ELSE hits = <<>>

-----------------------------------------------------------------------------
(* The offset reconstruction run on arbitrary tokenizer output: the token  *)
(* loop of run_pos_checks (pos_patterns.py:136-146), which is also         *)
(* _tokenize_with_spans of pos_rules.py                                    *)

\* longest text explored by the tokenizer specification
MaxTokLen == 3
\* most tokens the tokenizer yields in the tokenizer specification
MaxTokens == 3

\* the surface forms the tokenizer may yield: words of the text or not, the
\* empty word included
TokWords == {<<>>, <<De>>, <<Hao>>, <<De, Hao>>, <<Hao, De>>, <<Hao, Hao>>}

TokCuts == SeqsUpTo({[word |-> w, tag |-> <<"n">>] : w \in TokWords}, MaxTokens)

InitTok ==
    /\ pc = "tok_call"
    /\ text \in SeqsUpTo(PosAlphabet, MaxTokLen) \ {<<>>}
    /\ issues = <<>>
    /\ idx = 0
    /\ stack = <<>>
    /\ modes = DefaultModes
    /\ ext = NoExt
    /\ status = Pending
    /\ resp = NoResp
    /\ ConfAtImport
    /\ PosAtRest

TokTokenize ==
    /\ pc = "tok_call"
    /\ \E c \in TokCuts :
          /\ tagged' = c
          /\ toks' = PosTokens(text, c, 0)
    /\ pc' = "tok_done"
    /\ UNCHANGED <<text, modes, issues, ext, status, resp, idx, stack>>
    /\ UNCHANGED conf_vars

NextTok == TokTokenize

SpecTok == InitTok /\ [][NextTok]_vars

-----------------------------------------------------------------------------
(* C19 *)

\* the end of the token before the i-th (0 before the first)
PrevEnd(i) == IF i = 1 THEN 0 ELSE toks[i - 1].end

\* the offsets at or after `from` where w occurs in the text
OccurrencesFrom(w, from) ==
    {p \in from..Len(text) :
        p + Len(w) <= Len(text) /\ SubSeq(text, p + 1, p + Len(w)) = w}

\* C19: whatever the tokenizer yields, each token begins at the first
\* occurrence of its surface form at or after the end of the previous token,
\* or at that end when there is none, and ends len(surface) later; so tokens
\* are in reading order and do not overlap.
C19_TokenSpans ==
    pc = "tok_done" =>
        /\ Len(toks) = Len(tagged)
        /\ \A i \in 1..Len(toks) :
              LET occ == OccurrencesFrom(tagged[i].word, PrevEnd(i))
              IN  /\ toks[i].word = tagged[i].word
                  /\ IF occ = {}
                     THEN toks[i].begin = PrevEnd(i)
                     ELSE toks[i].begin \in occ
                          /\ \A p \in occ : toks[i].begin <= p
                  /\ toks[i].end = toks[i].begin + Len(toks[i].word)
                  /\ toks[i].begin >= PrevEnd(i)

\* a token found after skipping a character, then a token whose surface
\* form occurs only before the previous token's end
C19_Witness ==
    /\ pc = "tok_done"
    /\ Len(toks) >= 2
    /\ toks[1].begin > 0
    /\ OccurrencesFrom(toks[1].word, 0) # {}
    /\ OccurrencesFrom(toks[2].word, 0) # {}
    /\ OccurrencesFrom(toks[2].word, toks[1].end) = {}
    /\ toks[2].begin = toks[1].end

====
